---- MODULE Spec2Model ----
(***************************************************************************)
(* State-machine model of the routines co-routine library (routines.c,    *)
(* routines.h).  One action per public operation; an action runs the      *)
(* library code from the call up to the next point where user code        *)
(* executes (in the caller or in whichever co-routine the library         *)
(* switched to).  Records are modelled at pointer level: the intrusive    *)
(* prev/next/queue links, queue head/tail, message entries and the tail   *)
(* cursor are the fields of the C structures.                             *)
(***************************************************************************)
EXTENDS Integers, Sequences, FiniteSets, TLC

\* ---------------------------------------------------------------- bounds
MaxCor == 3
NumQ == 3
MaxMsgs == 2
MaxPayload == 2
MaxSteps == 7
MaxStepsRecv == 13
MaxStepsRR == 24
NumWorkers == 3
NumPrints == 4
MaxStepsPP == 30
NumClients == 2
NumPings == 2

NULL == 0
Cor == 1..MaxCor
MQ == 1..NumQ
Msg == 1..MaxMsgs
Payload == 1..MaxPayload

\* routines_state_t.  A zero-initialised record reads ROUTINES_COMPLETED.
ROUTINES_COMPLETED == "COMPLETED"
ROUTINES_SUSPENDED == "SUSPENDED"
ROUTINES_RUNNING == "RUNNING"
ROUTINES_BLOCKED_SEND == "BLOCKED_SEND"
ROUTINES_BLOCKED_RECV == "BLOCKED_RECV"
ROUTINES_BLOCKED_JOIN == "BLOCKED_JOIN"

\* Addresses of the coroutine_queue_t objects: the global ready queue, the
\* recv_queue member of each message queue, the join_queue member of each
\* co-routine.
ready_queue == 1
recv_queue(q) == 1 + q
join_queue(c) == 1 + NumQ + c
CQ == 1..(1 + NumQ + MaxCor)

VARIABLES
    mem,              \* co-routine record: "unused" | "live" | "freed"
    state,            \* routines_coroutine.state
    queue,            \* routines_coroutine.queue
    prev,             \* routines_coroutine.prev
    next,             \* routines_coroutine.next
    message,          \* routines_coroutine.message (entry whose sender field it addresses)
    stack_base,       \* routines_coroutine.stack_base
    context,          \* routines_coroutine.context: where the last setjmp was taken
    returned,         \* the entrypoint of the co-routine has returned
    head,             \* coroutine_queue_t.head, per queue object
    tail,             \* coroutine_queue_t.tail, per queue object
    qmem,             \* message queue record: "unused" | "live" | "freed"
    qhead,            \* routines_queue.head
    qtail,            \* routines_queue.tail: 0 = &queue->head, m = &entry[m].next
    entry,            \* message_t records
    root_context,     \* root_task.context
    current_coroutine,
    exited_coroutine,
    unused_stacks,    \* free list of stacks, top first
    nstacks,          \* stacks obtained from malloc
    status,           \* "ok" | "abort" (assertion failure) | "lost" (undefined behaviour)
    hist,             \* history: per queue, the payloads admitted and not yet taken out
    parked,           \* history: per queue, the receivers parked on it, oldest first
    sending,          \* history: per co-routine, the fate of its routines_send
    reply_var,        \* per co-routine, the variable whose address it passed to routines_recv
    last,             \* the call the last step made and what it observed
    defined,          \* no step so far ran into undefined behaviour
    peak,             \* history: the most stacks that co-routines held at once
    pc,               \* yield scenario: per worker, the print it is at (0: not started)
    out,              \* yield scenario: the ids printed, in order
    order,            \* yield scenario: the ready queue when root handed over to the workers
    pp,               \* ping-pong scenario: the variables of main, server_task and client_task
    steps,            \* calls made so far
    budget            \* calls the run may make

vars == <<mem, state, queue, prev, next, message, stack_base, context, returned,
          head, tail, qmem, qhead, qtail, entry, root_context,
          current_coroutine, exited_coroutine, unused_stacks, nstacks,
          status, hist, parked, sending, reply_var, last, defined, peak, pc,
          out, order, pp, steps, budget>>

\* A saved context: the internal call the co-routine is suspended in (at), the
\* public function that made it (api), and for a receive the message queue (q)
\* and whether a reply-queue out-parameter was passed (rq).
Ctx(at, api, q, rq) == [at |-> at, api |-> api, q |-> q, rq |-> rq]
NoCtx == Ctx("none", "none", NULL, FALSE)

\* A message_t; by and api are history: the caller and the public function
\* that admitted the message.
NoEntry == [used |-> FALSE, message |-> NULL, sender |-> NULL,
            reply_queue |-> NULL, next |-> NULL, by |-> NULL, api |-> "none"]

\* What a step did: the public function called (op), its caller (by, NULL for
\* root) and arguments (h, q, m); whether a receive returned to user code in
\* the step (got), through which function (rop), on which queue (gq), with
\* which payload (ret) and reply queue (rq), whether it took an entry out
\* (hit), whose (from), and the payload that had been admitted first (exp);
\* the fate of the message of a routines_send that returned in the step
\* (sret); the receiver that had been parked longest on q when a message was
\* sent to it (woke); whether the caller is a receiver that the step before
\* had woken with a message (after); whether the step ran into undefined
\* behaviour (ub).  What held when the call was made: the ready queue was
\* empty at a routines_yield (idle); the join queue of the co-routine that
\* returns or is destroyed (joined); the target of a routines_join had
\* returned (done); the blocked senders (snd) and the parked receivers (rcv)
\* of the queue given to routines_queue_destroy.  The receiver that send
\* transferred to (srv); whether the receive that returned had been parked
\* (blk).  Whether an assertion of coroutine_enqueue failed in the step (enq),
\* and whether the step accessed the record of a message queue that had been
\* released (ubq).
NoLast == [op |-> "init", by |-> NULL, h |-> NULL, q |-> NULL, m |-> NULL,
           got |-> FALSE, rop |-> "none", gq |-> NULL, ret |-> NULL,
           rq |-> NULL, hit |-> FALSE, from |-> NULL, exp |-> NULL,
           sret |-> "none", woke |-> NULL, after |-> FALSE, ub |-> FALSE,
           idle |-> FALSE, joined |-> <<>>, done |-> FALSE, snd |-> <<>>,
           rcv |-> <<>>, srv |-> NULL, blk |-> FALSE, enq |-> FALSE,
           ubq |-> FALSE]

\* The program state as one record, so that the library functions are
\* operators from state to state.  jmp: a longjmp to the context of
\* current_coroutine is under way.
St == [mem |-> mem, state |-> state, queue |-> queue, prev |-> prev,
       next |-> next, message |-> message, stack_base |-> stack_base,
       context |-> context, returned |-> returned, head |-> head,
       tail |-> tail, qmem |-> qmem, qhead |-> qhead, qtail |-> qtail,
       entry |-> entry, root_context |-> root_context,
       current_coroutine |-> current_coroutine,
       exited_coroutine |-> exited_coroutine,
       unused_stacks |-> unused_stacks, nstacks |-> nstacks,
       status |-> status, hist |-> hist, parked |-> parked,
       sending |-> sending, reply_var |-> reply_var, last |-> last,
       pc |-> pc, out |-> out, order |-> order, pp |-> pp, jmp |-> FALSE]

\* The ping-pong program before main starts: the server's message queue
\* (sq); per co-routine the task it runs (role), where that task is (stage),
\* the reply queue of a client (replyq) and its counters (pings, pongs); the
\* clients in the order their calls were made (called) and in the order the
\* server handled their requests (served).
NoPP == [sq |-> NULL,
         role |-> [c \in Cor |-> "none"],
         stage |-> [c \in Cor |-> "none"],
         replyq |-> [c \in Cor |-> NULL],
         pings |-> [c \in Cor |-> 0],
         pongs |-> [c \in Cor |-> 0],
         called |-> <<>>,
         served |-> <<>>]

\* The state before the first call; the run may make b calls.
InitWith(b) ==
    /\ mem = [c \in Cor |-> "unused"]
    /\ state = [c \in Cor |-> ROUTINES_COMPLETED]
    /\ queue = [c \in Cor |-> NULL]
    /\ prev = [c \in Cor |-> NULL]
    /\ next = [c \in Cor |-> NULL]
    /\ message = [c \in Cor |-> NULL]
    /\ stack_base = [c \in Cor |-> NULL]
    /\ context = [c \in Cor |-> NoCtx]
    /\ returned = [c \in Cor |-> FALSE]
    /\ head = [x \in CQ |-> NULL]
    /\ tail = [x \in CQ |-> NULL]
    /\ qmem = [q \in MQ |-> "unused"]
    /\ qhead = [q \in MQ |-> NULL]
    /\ qtail = [q \in MQ |-> NULL]
    /\ entry = [m \in Msg |-> NoEntry]
    /\ root_context = NoCtx
    /\ current_coroutine = NULL
    /\ exited_coroutine = NULL
    /\ unused_stacks = <<>>
    /\ nstacks = 0
    /\ status = "ok"
    /\ hist = [q \in MQ |-> <<>>]
    /\ parked = [q \in MQ |-> <<>>]
    /\ sending = [c \in Cor |-> "none"]
    /\ reply_var = [c \in Cor |-> NULL]
    /\ last = NoLast
    /\ defined = TRUE
    /\ peak = 0
    /\ pc = [c \in Cor |-> 0]
    /\ out = <<>>
    /\ order = <<>>
    /\ pp = NoPP
    /\ steps = 0
    /\ budget = b

Init == InitWith(MaxSteps)

\* ------------------------------------------------------- co-routine queues

\* A failed assert(): the process aborts.
Abort(s) == [s EXCEPT !.status = "abort"]

\* An access to the co-routine records cs; one that free() has released is a
\* use after free.
Touch(s, cs) ==
    IF \E c \in cs : c # NULL /\ s.mem[c] = "freed"
    THEN [s EXCEPT !.last.ub = TRUE] ELSE s

\* An access to the record of message queue q.
TouchQ(s, q) ==
    IF s.qmem[q] = "freed"
    THEN [s EXCEPT !.last.ub = TRUE, !.last.ubq = TRUE] ELSE s

\* s without the elements of seq that equal c.
Without(seq, c) == SelectSeq(seq, LAMBDA x : x # c)

\* History: co-routine c is no longer parked as a receiver.
Unpark(s, c) == [s EXCEPT !.parked = [q \in MQ |-> Without(s.parked[q], c)]]

coroutine_enqueue(s, cq, coroutine) ==
    IF s.status # "ok" THEN s
    ELSE IF s.next[coroutine] # NULL \/ s.prev[coroutine] # NULL
    THEN [Abort(s) EXCEPT !.last.enq = TRUE]
    ELSE IF s.tail[cq] # NULL
         THEN [Touch(s, {coroutine, s.tail[cq]}) EXCEPT
                        !.prev[coroutine] = s.tail[cq],
                        !.next[s.tail[cq]] = coroutine,
                        !.tail[cq] = coroutine,
                        !.queue[coroutine] = cq]
         ELSE [Touch(s, {coroutine}) EXCEPT
                        !.head[cq] = coroutine,
                        !.tail[cq] = coroutine,
                        !.queue[coroutine] = cq]

\* coroutine_dequeue returns the old head (s.head[cq], read by the caller
\* before the call) and leaves this state: the links of the old head and of
\* the new one stay as they were.
coroutine_dequeue(s, cq) ==
    IF s.status # "ok" THEN s
    ELSE LET h == s.head[cq]
         IN  IF h = NULL THEN [s EXCEPT !.tail[cq] = NULL]
             ELSE [Touch(s, {h}) EXCEPT
                      !.head[cq] = s.next[h],
                      !.queue[h] = NULL,
                      !.tail[cq] = IF s.next[h] = NULL THEN NULL ELSE @]

\* coroutine_remove, first branch: the predecessor or the head skips it.
coroutine_unlink_prev(s, cq, p, n) ==
    IF p # NULL THEN [s EXCEPT !.next[p] = n] ELSE [s EXCEPT !.head[cq] = n]

\* coroutine_remove, second branch: the successor or the tail skips it.
coroutine_unlink_next(s, cq, p, n) ==
    IF n # NULL THEN [s EXCEPT !.prev[n] = p] ELSE [s EXCEPT !.tail[cq] = p]

coroutine_remove(s, coroutine) ==
    IF s.status # "ok" THEN s
    ELSE IF s.queue[coroutine] = NULL THEN Abort(s)
    ELSE LET cq == s.queue[coroutine]
             p == s.prev[coroutine]
             n == s.next[coroutine]
         IN  IF p = NULL /\ s.head[cq] # coroutine THEN Abort(s)
             ELSE IF n = NULL /\ s.tail[cq] # coroutine
                  THEN Abort(coroutine_unlink_prev(s, cq, p, n))
             ELSE [Touch(coroutine_unlink_next(
                             coroutine_unlink_prev(s, cq, p, n), cq, p, n),
                         {coroutine, p, n}) EXCEPT
                      !.next[coroutine] = NULL,
                      !.prev[coroutine] = NULL,
                      !.queue[coroutine] = NULL]

\* --------------------------------------------------------- stack allocation

push_stack(s, base) == [s EXCEPT !.unused_stacks = <<base>> \o s.unused_stacks]

\* The stack_base pop_stack returns (NULL from an empty list).
pop_stack_base(s) ==
    IF s.unused_stacks = <<>> THEN NULL ELSE Head(s.unused_stacks)

pop_stack(s) ==
    IF s.unused_stacks = <<>> THEN s
    ELSE [s EXCEPT !.unused_stacks = Tail(s.unused_stacks)]

\* The stack alloc_stack returns: the popped one, or a fresh malloc.
alloc_stack_base(s) ==
    IF pop_stack_base(s) # NULL THEN pop_stack_base(s) ELSE s.nstacks + 1

alloc_stack(s) ==
    IF pop_stack_base(s) # NULL THEN pop_stack(s)
    ELSE [pop_stack(s) EXCEPT !.nstacks = s.nstacks + 1]

free_stack(s, base) == push_stack(s, base)

\* A variant of reap_exited that would leave the record of the exited
\* co-routine pointing to the stack it released.
reap_exited_keep(s) ==
    IF s.exited_coroutine = NULL THEN s
    ELSE [free_stack(s, s.stack_base[s.exited_coroutine]) EXCEPT
             !.exited_coroutine = NULL]

\* The code after the setjmp of routines_spawn and of transfer: release the
\* stack of the co-routine that just exited.
reap_exited(s) ==
    IF s.exited_coroutine = NULL THEN s
    ELSE LET e == s.exited_coroutine
         IN  [free_stack(Touch(s, {e}), s.stack_base[e]) EXCEPT
                 !.stack_base[e] = NULL,
                 !.exited_coroutine = NULL]

\* ------------------------------------------------ suspend, resume, messages

\* A variant of suspend_message that would leave the entry naming the
\* co-routine as its sender.
suspend_message_keep(s, coroutine) ==
    IF s.message[coroutine] # NULL
    THEN [s EXCEPT !.message[coroutine] = NULL]
    ELSE s

\* routines_suspend: a blocked sender leaves its message behind.
suspend_message(s, coroutine) ==
    IF s.message[coroutine] # NULL
    THEN [s EXCEPT !.entry[s.message[coroutine]].sender = NULL,
                   !.message[coroutine] = NULL]
    ELSE s

\* routines_suspend: removal from the co-routine queue it is in.
suspend_queue(s, coroutine) ==
    IF s.queue[coroutine] # NULL THEN coroutine_remove(s, coroutine) ELSE s

\* routines_suspend: the state becomes ROUTINES_SUSPENDED.
suspend_state(s, coroutine) ==
    IF s.status # "ok" THEN s
    ELSE [Unpark(s, coroutine) EXCEPT !.state[coroutine] = ROUTINES_SUSPENDED]

\* routines_suspend up to the test for the current co-routine (the part that
\* runs for every target).
suspend_detach(s, coroutine) ==
    IF s.status # "ok" THEN s
    ELSE suspend_state(
           suspend_queue(
             suspend_message(Touch(s, {coroutine}), coroutine),
             coroutine),
           coroutine)

\* routines_resume after its routines_suspend.
resume_ready(s, coroutine) ==
    IF s.status # "ok" THEN s
    ELSE coroutine_enqueue([s EXCEPT !.state[coroutine] = ROUTINES_RUNNING],
                           ready_queue, coroutine)

\* routines_resume (its routines_suspend never transfers: the target is not
\* the current co-routine).
routines_resume(s, coroutine) ==
    IF s.status # "ok" THEN s
    ELSE IF coroutine = s.current_coroutine THEN Abort(s)
    ELSE IF s.state[coroutine] = ROUTINES_COMPLETED
         THEN Abort(Touch(s, {coroutine}))
    ELSE resume_ready(suspend_detach(s, coroutine), coroutine)

\* The loops of routine_entry, routines_destroy and routines_queue_destroy:
\* dequeue and resume until the queue is empty.
RECURSIVE resume_all(_, _)
resume_all(s, cq) ==
    IF s.status # "ok" \/ s.head[cq] = NULL THEN coroutine_dequeue(s, cq)
    ELSE resume_all(routines_resume(coroutine_dequeue(s, cq), s.head[cq]), cq)

pending_messages(s, q) == q # NULL /\ s.qhead[q] # NULL

\* The entry malloc returns: the lowest free one.
new_entry(s) == CHOOSE m \in Msg : ~s.entry[m].used /\
                    \A k \in Msg : ~s.entry[k].used => m <= k

\* History kept by dequeue_message for the entry e it takes out of q: the
\* payload leaves the record of admitted payloads, and a message of
\* routines_send has been received (deliver) or is lost with its queue.
TakeOut(s, q, e, deliver) ==
    [s EXCEPT !.hist[q] = IF @ = <<>> THEN @ ELSE Tail(@),
              !.sending = IF e.api = "send" /\ e.by # NULL
                             /\ s.sending[e.by] = "pending"
                          THEN [@ EXCEPT ![e.by] = IF deliver THEN "received"
                                                   ELSE "void"]
                          ELSE @]

\* A variant of dequeue_resume that would leave the sender of the head entry
\* blocked.
dequeue_resume_none(s, q) == s

\* dequeue_message: the sender of the head entry is resumed.
dequeue_resume(s, q) ==
    IF s.qhead[q] # NULL /\ s.entry[s.qhead[q]].sender # NULL
    THEN routines_resume(s, s.entry[s.qhead[q]].sender)
    ELSE s

\* What dequeue_message hands to user code through rop.  *reply_queue is
\* assigned only when there is a head entry; otherwise the variable of the
\* caller keeps the value it had.
dequeue_record(s, q, reply_out, deliver, rop) ==
    IF s.status # "ok" \/ ~deliver THEN s
    ELSE LET h == s.qhead[q]
             e == IF h # NULL THEN s.entry[h] ELSE NoEntry
         IN  [s EXCEPT !.last.got = TRUE, !.last.rop = rop,
                       !.last.gq = q, !.last.ret = e.message,
                       !.last.rq = IF ~reply_out THEN NULL
                                   ELSE IF h # NULL THEN e.reply_queue
                                   ELSE IF s.current_coroutine = NULL THEN NULL
                                   ELSE s.reply_var[s.current_coroutine],
                       !.reply_var = IF s.current_coroutine = NULL THEN @
                                     ELSE [@ EXCEPT ![s.current_coroutine] = NULL],
                       !.last.hit = (h # NULL),
                       !.last.from = e.by,
                       !.last.exp = IF s.hist[q] = <<>> THEN NULL
                                    ELSE Head(s.hist[q])]

\* dequeue_message: the head entry leaves the list and is freed; an empty
\* list has its tail cursor back at the head.
dequeue_unlink(s, q, deliver) ==
    IF s.status # "ok" THEN s
    ELSE LET h == s.qhead[q]
         IN  IF h = NULL THEN [s EXCEPT !.qtail[q] = NULL]
             ELSE [TakeOut(s, q, s.entry[h], deliver) EXCEPT
                      !.qhead[q] = s.entry[h].next,
                      !.qtail[q] = IF s.entry[h].next = NULL THEN NULL ELSE @,
                      !.entry[h] = NoEntry]

\* dequeue_message.  deliver: the call comes from recv, and the payload and
\* reply queue go to user code through rop; otherwise (the call of
\* routines_queue_destroy) they are dropped.
dequeue_message(s, q, reply_out, deliver, rop) ==
    IF s.status # "ok" THEN s
    ELSE dequeue_unlink(
           dequeue_record(dequeue_resume(TouchQ(s, q), q),
                          q, reply_out, deliver, rop),
           q, deliver)

\* ------------------------------------------------------------- transfer

\* transfer: the caller takes the state and joins the queue.
transfer_park(s, cq, st) ==
    LET self == s.current_coroutine
    IN  IF self = NULL THEN s
        ELSE IF cq # NULL
             THEN coroutine_enqueue([s EXCEPT !.state[self] = st], cq, self)
             ELSE [s EXCEPT !.state[self] = st]

\* transfer: current_coroutine becomes the target, the context of the caller
\* is saved as k, the target is marked running and jumped to.
transfer_jump(s, self, target, k) ==
    [(IF target # NULL THEN Touch(s, {target}) ELSE s) EXCEPT
        !.current_coroutine = target,
        !.context = IF self # NULL THEN [@ EXCEPT ![self] = k] ELSE @,
        !.root_context = IF self = NULL THEN k ELSE @,
        !.state = IF target # NULL
                  THEN [@ EXCEPT ![target] = ROUTINES_RUNNING] ELSE @,
        !.jmp = TRUE]

\* transfer: without a target, the head of the ready queue is the target.
transfer_pick(s, self, coroutine, k) ==
    IF s.status # "ok" THEN s
    ELSE IF coroutine = NULL
         THEN transfer_jump(coroutine_dequeue(s, ready_queue), self,
                            s.head[ready_queue], k)
         ELSE transfer_jump(s, self, coroutine, k)

\* transfer(queue, state, coroutine) up to its longjmp; k is the context its
\* setjmp saves.
transfer(s, cq, st, coroutine, k) ==
    IF s.status # "ok" THEN s
    ELSE transfer_pick(transfer_park(s, cq, st), s.current_coroutine,
                       coroutine, k)

\* History kept where control comes back to co-routine c in context k: c is
\* parked on no queue, and a routines_send that returns reports the fate of
\* its message.
Back(s, c, k) ==
    IF c = NULL THEN s
    ELSE IF k.at = "send" /\ k.api = "send"
         THEN [Unpark(s, c) EXCEPT !.last.sret = s.sending[c],
                                   !.sending[c] = "none"]
         ELSE Unpark(s, c)

\* recv up to its transfer, or all of it when a message is pending.
recv(s, q, reply_out, rop) ==
    IF s.status # "ok" THEN s
    ELSE IF ~pending_messages(s, q)
         THEN transfer([TouchQ(s, q) EXCEPT !.parked[q] =
                           IF s.current_coroutine = NULL THEN @
                           ELSE Append(@, s.current_coroutine)],
                       recv_queue(q), ROUTINES_BLOCKED_RECV, NULL,
                       Ctx("recv", rop, q, reply_out))
         ELSE dequeue_message(s, q, reply_out, TRUE, rop)

\* The code that runs after a longjmp has landed in context k, up to the
\* return to user code or to the next longjmp.
longjmp_landed(s, k) ==
    CASE k.at = "call" -> recv(s, k.q, FALSE, "call")
      [] k.at = "recv" -> dequeue_message([s EXCEPT !.last.blk = TRUE],
                                          k.q, k.rq, TRUE, k.api)
      [] OTHER -> s

\* longjmp to the context of current_coroutine (of root when it is NULL).  A
\* context whose co-routine has exited or was freed, or that was never saved,
\* is not a valid jump target.
longjmp(s) ==
    LET c == s.current_coroutine
        k == IF c = NULL THEN s.root_context ELSE s.context[c]
        stale == \/ k.at = "none"
                 \/ c # NULL /\ (s.returned[c] \/ s.mem[c] # "live")
    IN  longjmp_landed(
          Back(reap_exited([s EXCEPT !.jmp = FALSE,
                                     !.last.ub = @ \/ stale]), c, k),
          k)

\* A variant of enqueue_link that would break the order of messages: the new
\* entry goes in front of the pending ones.
enqueue_link_front(s, q, new_tail) ==
    IF s.qtail[q] = NULL
    THEN [s EXCEPT !.qhead[q] = new_tail, !.qtail[q] = new_tail]
    ELSE [s EXCEPT !.entry[new_tail].next = s.qhead[q],
                   !.qhead[q] = new_tail]

\* enqueue_message: the new entry goes where the tail cursor points.
enqueue_link(s, q, new_tail) ==
    IF s.qtail[q] = NULL
    THEN [s EXCEPT !.qhead[q] = new_tail, !.qtail[q] = new_tail]
    ELSE [s EXCEPT !.entry[s.qtail[q]].next = new_tail,
                   !.qtail[q] = new_tail]

\* enqueue_message: a blocking sender transfers away.
enqueue_block(s, sender, new_tail, k) ==
    IF sender # NULL
    THEN transfer([s EXCEPT !.message[sender] = new_tail],
                  NULL, ROUTINES_BLOCKED_SEND, NULL, k)
    ELSE s

\* enqueue_message; k is the context saved when a blocking sender transfers.
enqueue_message(s, q, msg, sender, reply_queue, k) ==
    IF s.status # "ok" THEN s
    ELSE enqueue_block(
           enqueue_link(
             [s EXCEPT !.entry[new_entry(s)] =
                           [used |-> TRUE, message |-> msg,
                            sender |-> sender, reply_queue |-> reply_queue,
                            next |-> NULL, by |-> s.current_coroutine,
                            api |-> k.api],
                       !.hist[q] = Append(@, msg)],
             q, new_entry(s)),
           sender, new_entry(s), k)

\* send after its coroutine_dequeue returned server.
send_to(s, q, msg, sender, reply_queue, k, server) ==
    IF server # NULL
    THEN transfer(enqueue_message([s EXCEPT !.last.srv = server],
                                  q, msg, NULL, reply_queue, k),
                  ready_queue, ROUTINES_RUNNING, server, k)
    ELSE enqueue_message(s, q, msg, sender, reply_queue, k)

\* send; k is the context saved if the caller is switched away from.
send(s, q, msg, sender, reply_queue, k) ==
    IF s.status # "ok" THEN s
    ELSE send_to(coroutine_dequeue(
                   [s EXCEPT !.last.woke = IF s.parked[q] = <<>> THEN NULL
                                           ELSE Head(s.parked[q])],
                   recv_queue(q)),
                 q, msg, sender, reply_queue, k, s.head[recv_queue(q)])

\* --------------------------------------------------------- public interface

\* The record malloc returns: the lowest one never handed out.
new_coroutine(s) == CHOOSE c \in Cor : s.mem[c] = "unused" /\
                        \A d \in Cor : s.mem[d] = "unused" => c <= d

new_queue(s) == CHOOSE q \in MQ : s.qmem[q] = "unused" /\
                    \A r \in MQ : s.qmem[r] = "unused" => q <= r

\* routine_entry: the new co-routine becomes the current one.
routine_enter(s, coroutine) ==
    IF s.status # "ok" THEN s
    ELSE [s EXCEPT !.current_coroutine = coroutine]

\* routine_entry up to the call of the entrypoint.
routine_entry(s, coroutine) ==
    IF s.status # "ok" THEN s
    ELSE IF s.current_coroutine # NULL
         THEN routine_enter(
                coroutine_enqueue(s, ready_queue, s.current_coroutine),
                coroutine)
         ELSE routine_enter(s, coroutine)

\* routine_entry after its join loop: the co-routine is completed and the
\* head of the ready queue (or root) is jumped to.
routine_leave(s, coroutine) ==
    IF s.status # "ok" THEN s
    ELSE [coroutine_dequeue(
            [s EXCEPT !.exited_coroutine = coroutine,
                      !.state[coroutine] = ROUTINES_COMPLETED,
                      !.returned[coroutine] = TRUE],
            ready_queue) EXCEPT
             !.current_coroutine = s.head[ready_queue],
             !.jmp = TRUE]

\* routine_entry from the return of the entrypoint.
routine_exit(s) ==
    routine_leave(resume_all(s, join_queue(s.current_coroutine)),
                  s.current_coroutine)

\* routines_spawn: the new record, zero but for its stack.
spawn_record(s) ==
    [alloc_stack(s) EXCEPT
        !.mem[new_coroutine(s)] = "live",
        !.state[new_coroutine(s)] = ROUTINES_COMPLETED,
        !.stack_base[new_coroutine(s)] = alloc_stack_base(s)]

\* routines_spawn: the caller joins the ready queue.
spawn_enqueue(s, self) ==
    IF self # NULL THEN coroutine_enqueue(s, ready_queue, self) ELSE s

\* routines_spawn: the context of the caller is saved.
spawn_setjmp(s, self) ==
    IF s.status # "ok" THEN s
    ELSE IF self # NULL
         THEN [s EXCEPT !.context[self] = Ctx("spawn", "spawn", NULL, FALSE)]
         ELSE [s EXCEPT !.root_context = Ctx("spawn", "spawn", NULL, FALSE)]

routines_spawn(s) ==
    routine_entry(
      spawn_setjmp(spawn_enqueue(spawn_record(s), s.current_coroutine),
                   s.current_coroutine),
      new_coroutine(s))

\* routines_suspend after the target is detached: the current co-routine
\* transfers away.
suspend_self(s, coroutine) ==
    IF s.status = "ok" /\ coroutine = s.current_coroutine
    THEN transfer(s, NULL, ROUTINES_SUSPENDED, NULL,
                  Ctx("suspend", "suspend", NULL, FALSE))
    ELSE s

routines_suspend(s, coroutine) ==
    suspend_self(suspend_detach(s, coroutine), coroutine)

\* A variant of destroy_free that would release the record and not its stack.
destroy_free_leak(s, coroutine) ==
    IF s.status # "ok" THEN s ELSE [s EXCEPT !.mem[coroutine] = "freed"]

\* routines_destroy after its join loop: the stack and the record are freed.
destroy_free(s, coroutine) ==
    IF s.status # "ok" THEN s
    ELSE IF s.stack_base[coroutine] # NULL
         THEN [free_stack(s, s.stack_base[coroutine]) EXCEPT
                  !.mem[coroutine] = "freed"]
         ELSE [s EXCEPT !.mem[coroutine] = "freed"]

routines_destroy(s, coroutine) ==
    destroy_free(
      resume_all(routines_suspend(s, coroutine), join_queue(coroutine)),
      coroutine)

routines_state(s, coroutine) == s.state[coroutine]

routines_self(s) == s.current_coroutine

routines_yield(s) ==
    transfer(s, ready_queue, ROUTINES_RUNNING, NULL,
             Ctx("yield", "yield", NULL, FALSE))

routines_join(s, coroutine) ==
    transfer(s, join_queue(coroutine), ROUTINES_BLOCKED_JOIN, NULL,
             Ctx("join", "join", NULL, FALSE))

routines_queue_create(s) ==
    LET q == new_queue(s)
    IN  [s EXCEPT !.qmem[q] = "live", !.qhead[q] = NULL, !.qtail[q] = NULL,
                  !.head[recv_queue(q)] = NULL, !.tail[recv_queue(q)] = NULL]

RECURSIVE drop_messages(_, _)
\* The first loop of routines_queue_destroy.
drop_messages(s, q) ==
    IF s.status # "ok" \/ ~pending_messages(s, q) THEN s
    ELSE drop_messages(dequeue_message(s, q, FALSE, FALSE, "none"), q)

\* routines_queue_destroy after its loops: the record is freed.
queue_free(s, q) ==
    IF s.status # "ok" THEN s
    ELSE [s EXCEPT !.qmem[q] = "freed", !.hist[q] = <<>>, !.parked[q] = <<>>]

routines_queue_destroy(s, q) ==
    queue_free(resume_all(drop_messages(s, q), recv_queue(q)), q)

routines_send(s, q, msg) ==
    send([s EXCEPT !.sending[s.current_coroutine] = "pending"],
         q, msg, s.current_coroutine, NULL, Ctx("send", "send", q, FALSE))

routines_wait(s, q) == recv(s, q, FALSE, "wait")

routines_signal(s, q, msg) ==
    send(s, q, msg, NULL, NULL, Ctx("send", "signal", q, FALSE))

\* A routines_read that finds no message returns NULL.
\* A variant of routines_read that would receive without looking for a pending
\* message first.
routines_read_blocking(s, q) == recv(s, q, FALSE, "read")

routines_read(s, q) ==
    IF pending_messages(s, q) THEN recv(s, q, FALSE, "read")
    ELSE [s EXCEPT !.last.got = TRUE, !.last.rop = "read", !.last.gq = q]

\* routines_call after its send: when send switched away, the recv on the
\* reply queue is what the saved context continues with.
call_recv(s, reply_queue) ==
    IF s.jmp THEN s ELSE recv(s, reply_queue, FALSE, "call")

\* A variant of routines_call whose send would block: the caller is passed
\* as the sender.
routines_call_blocking(s, send_queue, msg, reply_queue) ==
    call_recv(send(s, send_queue, msg, s.current_coroutine, reply_queue,
                   Ctx("call", "call", reply_queue, FALSE)),
              reply_queue)

routines_call(s, send_queue, msg, reply_queue) ==
    call_recv(send(s, send_queue, msg, NULL, reply_queue,
                   Ctx("call", "call", reply_queue, FALSE)),
              reply_queue)

routines_recv(s, q) == recv(s, q, TRUE, "recv")

routines_post(s, send_queue, msg, reply_queue) ==
    send(s, send_queue, msg, NULL, reply_queue,
         Ctx("send", "post", send_queue, FALSE))

\* ------------------------------------------------------------------ actions

RECURSIVE Walk(_, _)
\* The co-routines met from c along the next links, at most n of them.
Walk(c, n) ==
    IF c = NULL \/ n = 0 THEN <<>> ELSE <<c>> \o Walk(next[c], n - 1)

\* The traversal of a co-routine queue from its head; a traversal longer than
\* the number of co-routines has met one of them twice.
Members(cq) == Walk(head[cq], MaxCor + 1)

RECURSIVE WalkEntries(_, _)
\* The message entries met from m along the next links, at most n of them.
WalkEntries(m, n) ==
    IF m = NULL \/ n = 0 THEN <<>>
    ELSE <<m>> \o WalkEntries(entry[m].next, n - 1)

\* The pending entries of message queue q, oldest first.
Pending(q) == WalkEntries(qhead[q], MaxMsgs)

\* The co-routines blocked in routines_send on q, in the order of their
\* entries.
Senders(q) ==
    SelectSeq([i \in 1..Len(Pending(q)) |-> entry[Pending(q)[i]].sender],
              LAMBDA c : c # NULL)

\* The state a call starts from, labelled with the call.
Begin(op, h, q, m) ==
    [St EXCEPT !.last = [NoLast EXCEPT
        !.op = op, !.by = current_coroutine, !.h = h, !.q = q, !.m = m,
        !.after = (last.woke # NULL /\ last.got
                   /\ last.woke = current_coroutine),
        !.idle = (op = "yield" /\ head[ready_queue] = NULL),
        !.joined = IF op = "exit" /\ current_coroutine # NULL
                   THEN Members(join_queue(current_coroutine))
                   ELSE IF op = "destroy" THEN Members(join_queue(h))
                   ELSE <<>>,
        !.done = (op = "join" /\ returned[h]),
        !.snd = IF op = "queue_destroy" THEN Senders(q) ELSE <<>>,
        !.rcv = IF op = "queue_destroy" THEN Members(recv_queue(q))
                ELSE <<>>]]

\* History: another party suspends, resumes or destroys co-routine h while
\* its routines_send is pending.
Meddle(s, h) ==
    IF s.sending[h] = "pending" THEN [s EXCEPT !.sending[h] = "void"] ELSE s

\* The stacks that co-routine records hold in s.
Held(s) == {c \in Cor : s.mem[c] = "live" /\ s.stack_base[c] # NULL}

Set(s) ==
    /\ mem' = s.mem /\ state' = s.state /\ queue' = s.queue
    /\ prev' = s.prev /\ next' = s.next /\ message' = s.message
    /\ stack_base' = s.stack_base /\ context' = s.context
    /\ returned' = s.returned /\ head' = s.head /\ tail' = s.tail
    /\ qmem' = s.qmem /\ qhead' = s.qhead /\ qtail' = s.qtail
    /\ entry' = s.entry /\ root_context' = s.root_context
    /\ current_coroutine' = s.current_coroutine
    /\ exited_coroutine' = s.exited_coroutine
    /\ unused_stacks' = s.unused_stacks /\ nstacks' = s.nstacks
    /\ status' = s.status /\ hist' = s.hist /\ parked' = s.parked
    /\ sending' = s.sending /\ reply_var' = s.reply_var /\ last' = s.last
    /\ defined' = (defined /\ ~s.last.ub)
    /\ peak' = IF Cardinality(Held(s)) > peak THEN Cardinality(Held(s))
               ELSE peak
    /\ pc' = s.pc /\ out' = s.out /\ order' = s.order /\ pp' = s.pp
    /\ steps' = steps + 1
    /\ budget' = budget

RECURSIVE Resumed(_)
\* The library code runs on in the co-routines it jumps to, until one of them
\* is back in user code.
Resumed(s) ==
    IF s.status = "ok" /\ s.jmp THEN Resumed(longjmp(s)) ELSE s

\* The outcome of a call.  One that ran into undefined behaviour either goes
\* on with the memory as it is, or the process is lost.
Outcome(r) ==
    \E lost \in (IF r.last.ub /\ r.status = "ok" THEN {FALSE, TRUE}
                 ELSE {FALSE}) :
        Set(IF lost THEN [r EXCEPT !.status = "lost"] ELSE r)

\* A call: the library runs from s to the next point in user code.
Commit(s) == Outcome(Resumed(s))

\* User code is running and may make a call.
Running == status = "ok" /\ steps < budget

Live(c) == mem[c] = "live"
LiveQ(q) == qmem[q] = "live"
InTask == current_coroutine # NULL
CanEnqueueMessage == \E m \in Msg : ~entry[m].used

Spawn ==
    /\ Running
    /\ \E c \in Cor : mem[c] = "unused"
    /\ Commit(routines_spawn(Begin("spawn", NULL, NULL, NULL)))

\* The entrypoint of the current co-routine returns.
Exit ==
    /\ Running /\ InTask
    /\ Commit(routine_exit(Begin("exit", NULL, NULL, NULL)))

Destroy ==
    /\ Running
    /\ \E h \in Cor :
          /\ Live(h) /\ h # current_coroutine
          /\ Commit(routines_destroy(Meddle(Begin("destroy", h, NULL, NULL), h), h))

Yield ==
    /\ Running
    /\ Commit(routines_yield(Begin("yield", NULL, NULL, NULL)))

Join ==
    /\ Running /\ InTask
    /\ \E h \in Cor :
          /\ Live(h) /\ h # current_coroutine
          /\ Commit(routines_join(Begin("join", h, NULL, NULL), h))

Suspend ==
    /\ Running
    /\ \E h \in Cor :
          /\ Live(h)
          /\ Commit(routines_suspend(Meddle(Begin("suspend", h, NULL, NULL), h), h))

Resume ==
    /\ Running
    /\ \E h \in Cor :
          /\ Live(h)
          /\ Commit(routines_resume(Meddle(Begin("resume", h, NULL, NULL), h), h))

QueueCreate ==
    /\ Running
    /\ \E q \in MQ : qmem[q] = "unused"
    /\ Commit(routines_queue_create(Begin("queue_create", NULL, NULL, NULL)))

QueueDestroy ==
    /\ Running
    /\ \E q \in MQ :
          /\ LiveQ(q)
          /\ Commit(routines_queue_destroy(Begin("queue_destroy", NULL, q, NULL), q))

Send ==
    /\ Running /\ InTask /\ CanEnqueueMessage
    /\ \E q \in MQ, m \in Payload :
          /\ LiveQ(q)
          /\ Commit(routines_send(Begin("send", NULL, q, m), q, m))

Wait ==
    /\ Running /\ InTask
    /\ \E q \in MQ :
          /\ LiveQ(q)
          /\ Commit(routines_wait(Begin("wait", NULL, q, NULL), q))

Signal ==
    /\ Running /\ InTask /\ CanEnqueueMessage
    /\ \E q \in MQ, m \in Payload :
          /\ LiveQ(q)
          /\ Commit(routines_signal(Begin("signal", NULL, q, m), q, m))

Read ==
    /\ Running /\ InTask
    /\ \E q \in MQ :
          /\ LiveQ(q)
          /\ Commit(routines_read(Begin("read", NULL, q, NULL), q))

Call ==
    /\ Running /\ InTask /\ CanEnqueueMessage
    /\ \E q \in MQ, r \in MQ, m \in Payload :
          /\ LiveQ(q) /\ LiveQ(r)
          /\ Commit(routines_call(Begin("call", NULL, q, m), q, m, r))

\* routines_recv(q, &v); v holds any value r before the call.
Recv ==
    /\ Running /\ InTask
    /\ \E q \in MQ, r \in MQ \cup {NULL} :
          /\ LiveQ(q)
          /\ Commit(routines_recv(
                 [Begin("recv", NULL, q, NULL) EXCEPT
                     !.reply_var[current_coroutine] = r], q))

Post ==
    /\ Running /\ InTask /\ CanEnqueueMessage
    /\ \E q \in MQ, r \in MQ \cup {NULL}, m \in Payload :
          /\ LiveQ(q) /\ (IF r = NULL THEN TRUE ELSE LiveQ(r))
          /\ Commit(routines_post(Begin("post", NULL, q, m), q, m, r))

Next ==
    \/ Spawn \/ Exit \/ Destroy \/ Yield \/ Join \/ Suspend \/ Resume
    \/ QueueCreate \/ QueueDestroy
    \/ Send \/ Wait \/ Signal \/ Read \/ Call \/ Recv \/ Post

Spec == Init /\ [][Next]_vars

\* ------------------------------------------------------------- properties

\* User code is executing, and nothing undefined has happened on the way.
UserPoint == status = "ok" /\ defined

Times(cq, c) == Cardinality({i \in 1..Len(Members(cq)) : Members(cq)[i] = c})

Reaches(cq, c) == Times(cq, c) > 0

\* The queue objects of records that are allocated.
LiveCQ == {ready_queue} \cup {recv_queue(q) : q \in {r \in MQ : qmem[r] = "live"}}
              \cup {join_queue(c) : c \in {d \in Cor : mem[d] = "live"}}

RecvQueues == {recv_queue(q) : q \in {r \in MQ : qmem[r] = "live"}}
JoinQueues == {join_queue(c) : c \in {d \in Cor : mem[d] = "live"}}

\* ------------------------------------------ scenario: receivers and sender
\* Co-routines 1 and 2 receive from message queue 1 and co-routine 3 sends to
\* it.  Root spawns the three; each task is any sequence of calls from its
\* repertoire: 1 creates the queue, waits and returns; 2 waits, yields and
\* suspends the sender; 3 signals, yields and resumes the second receiver.

RecvSpawn ==
    /\ Running /\ current_coroutine = NULL
    /\ \E c \in Cor : mem[c] = "unused"
    /\ Commit(routines_spawn(Begin("spawn", NULL, NULL, NULL)))

RecvCreate ==
    /\ Running /\ current_coroutine = 1
    /\ qmem[1] = "unused"
    /\ Commit(routines_queue_create(Begin("queue_create", NULL, NULL, NULL)))

RecvWait ==
    /\ Running /\ current_coroutine \in {1, 2}
    /\ LiveQ(1)
    /\ Commit(routines_wait(Begin("wait", NULL, 1, NULL), 1))

RecvSignal ==
    /\ Running /\ current_coroutine = 3 /\ CanEnqueueMessage
    /\ LiveQ(1)
    /\ Commit(routines_signal(Begin("signal", NULL, 1, 1), 1, 1))

RecvExit ==
    /\ Running /\ current_coroutine = 1
    /\ Commit(routine_exit(Begin("exit", NULL, NULL, NULL)))

RecvResume ==
    /\ Running /\ current_coroutine = 3
    /\ Live(2)
    /\ Commit(routines_resume(Meddle(Begin("resume", 2, NULL, NULL), 2), 2))

RecvSuspend ==
    /\ Running /\ current_coroutine = 2
    /\ Live(3)
    /\ Commit(routines_suspend(Meddle(Begin("suspend", 3, NULL, NULL), 3), 3))

RecvYield ==
    /\ Running /\ current_coroutine \in {2, 3}
    /\ Commit(routines_yield(Begin("yield", NULL, NULL, NULL)))

NextRecv ==
    \/ RecvSpawn \/ RecvCreate \/ RecvWait \/ RecvSignal
    \/ RecvExit \/ RecvResume \/ RecvSuspend \/ RecvYield

SpecRecv == InitWith(MaxStepsRecv) /\ [][NextRecv]_vars

\* ------------------------------------------------ scenario: yield fairness
\* NumWorkers workers.  A worker suspends itself when it starts, so that root
\* can make all of them ready before any of them prints; once resumed it
\* prints its id NumPrints times with a routines_yield between two prints,
\* and returns.  Root spawns the workers, resumes them and yields, in any
\* order.

Worker == 1..NumWorkers

RRSpawn ==
    /\ Running /\ current_coroutine = NULL
    /\ \E c \in Worker : mem[c] = "unused"
    /\ Commit(routines_spawn(Begin("spawn", NULL, NULL, NULL)))

\* The first call of a worker: routines_suspend(routines_self()).
RRStart ==
    /\ Running /\ InTask
    /\ pc[current_coroutine] = 0
    /\ Commit(routines_suspend(
           [Begin("suspend", current_coroutine, NULL, NULL)
               EXCEPT !.pc[current_coroutine] = 1],
           routines_self(St)))

RRResume ==
    /\ Running /\ current_coroutine = NULL
    /\ \E h \in Worker :
          /\ Live(h) /\ state[h] = ROUTINES_SUSPENDED
          /\ Commit(routines_resume(Begin("resume", h, NULL, NULL), h))

\* Root yields.  The first time it does so with every worker ready and
\* nothing printed yet, the order of the ready queue is recorded.
RRYield ==
    /\ Running /\ current_coroutine = NULL
    /\ Commit(routines_yield(
           [Begin("yield", NULL, NULL, NULL) EXCEPT !.order =
               IF order = <<>> /\ out = <<>>
                  /\ Len(Members(ready_queue)) = NumWorkers
               THEN Members(ready_queue) ELSE order]))

\* A worker prints its id; then it yields, or after its last print returns.
RRPrint ==
    /\ Running /\ InTask
    /\ pc[current_coroutine] \in 1..NumPrints
    /\ LET c == current_coroutine
           more == pc[c] < NumPrints
           s == [Begin(IF more THEN "yield" ELSE "exit", NULL, NULL, NULL)
                    EXCEPT !.out = Append(out, c), !.pc[c] = pc[c] + 1]
       IN  Commit(IF more THEN routines_yield(s) ELSE routine_exit(s))

NextRR == RRSpawn \/ RRStart \/ RRResume \/ RRYield \/ RRPrint

SpecRR == InitWith(MaxStepsRR) /\ [][NextRR]_vars

\* ---------------------------------------------------- scenario: ping-pong
\* The ping-pong example: main creates the server's queue and spawns up to
\* NumClients clients and one server, in any order.  A client creates its
\* reply queue, makes NumPings calls with itself as the message, destroys the
\* reply queue and returns.  The server loops: it receives a client and a
\* reply queue, counts a pong for the client and signals the client on the
\* reply queue.

Clients == {c \in Cor : pp.role[c] = "client"}
Servers == {c \in Cor : pp.role[c] = "server"}

\* The server has just returned from its routines_recv with a request.
ServerHasRequest ==
    /\ current_coroutine \in Servers
    /\ last.got /\ last.rop = "recv" /\ last.hit

PPCreate ==
    /\ Running /\ current_coroutine = NULL
    /\ pp.sq = NULL
    /\ Commit(routines_queue_create(
           [Begin("queue_create", NULL, NULL, NULL) EXCEPT
               !.pp.sq = new_queue(St)]))

PPSpawnClient ==
    /\ Running /\ current_coroutine = NULL
    /\ pp.sq # NULL
    /\ Cardinality(Clients) < NumClients
    /\ \E c \in Cor : mem[c] = "unused"
    /\ Commit(routines_spawn(
           [Begin("spawn", NULL, NULL, NULL) EXCEPT
               !.pp.role[new_coroutine(St)] = "client",
               !.pp.stage[new_coroutine(St)] = "start"]))

PPSpawnServer ==
    /\ Running /\ current_coroutine = NULL
    /\ pp.sq # NULL
    /\ Servers = {}
    /\ \E c \in Cor : mem[c] = "unused"
    /\ Commit(routines_spawn(
           [Begin("spawn", NULL, NULL, NULL) EXCEPT
               !.pp.role[new_coroutine(St)] = "server",
               !.pp.stage[new_coroutine(St)] = "loop"]))

\* client_task: reply_queue = routines_queue_create().
PPClientStart ==
    /\ Running /\ current_coroutine \in Clients
    /\ pp.stage[current_coroutine] = "start"
    /\ \E q \in MQ : qmem[q] = "unused"
    /\ Commit(routines_queue_create(
           [Begin("queue_create", NULL, NULL, NULL) EXCEPT
               !.pp.replyq[current_coroutine] = new_queue(St),
               !.pp.stage[current_coroutine] = "loop"]))

\* client_task: pings += 1; routines_call(message_queue, client, reply_queue).
PPClientCall ==
    /\ Running /\ current_coroutine \in Clients /\ CanEnqueueMessage
    /\ pp.stage[current_coroutine] = "loop"
    /\ pp.pings[current_coroutine] < NumPings
    /\ Commit(routines_call(
           [Begin("call", NULL, pp.sq, current_coroutine) EXCEPT
               !.pp.pings[current_coroutine] = @ + 1,
               !.pp.called = Append(@, current_coroutine)],
           pp.sq, current_coroutine, pp.replyq[current_coroutine]))

\* client_task after its loop: routines_queue_destroy(reply_queue).
PPClientDestroy ==
    /\ Running /\ current_coroutine \in Clients
    /\ pp.stage[current_coroutine] = "loop"
    /\ pp.pings[current_coroutine] = NumPings
    /\ Commit(routines_queue_destroy(
           [Begin("queue_destroy", NULL, pp.replyq[current_coroutine], NULL)
               EXCEPT !.pp.stage[current_coroutine] = "exit"],
           pp.replyq[current_coroutine]))

\* client_task returns.
PPClientExit ==
    /\ Running /\ current_coroutine \in Clients
    /\ pp.stage[current_coroutine] = "exit"
    /\ Commit(routine_exit(
           [Begin("exit", NULL, NULL, NULL) EXCEPT
               !.pp.stage[current_coroutine] = "done"]))

\* server_task: client = routines_recv(message_queue, &reply_queue); the
\* variable reply_queue is not initialised.
PPServerRecv ==
    /\ Running /\ current_coroutine \in Servers
    /\ ~ServerHasRequest
    /\ \E r \in MQ \cup {NULL} :
          Commit(routines_recv(
              [Begin("recv", NULL, pp.sq, NULL) EXCEPT
                  !.reply_var[current_coroutine] = r], pp.sq))

\* server_task: client->pongs += 1; routines_signal(reply_queue, client).
PPServerSignal ==
    /\ Running /\ ServerHasRequest /\ CanEnqueueMessage
    /\ last.ret \in Cor /\ last.rq \in MQ
    /\ Commit(routines_signal(
           [Begin("signal", NULL, last.rq, last.ret) EXCEPT
               !.pp.pongs[last.ret] = @ + 1,
               !.pp.served = Append(@, last.ret)],
           last.rq, last.ret))

NextPP ==
    \/ PPCreate \/ PPSpawnClient \/ PPSpawnServer
    \/ PPClientStart \/ PPClientCall \/ PPClientDestroy \/ PPClientExit
    \/ PPServerRecv \/ PPServerSignal

SpecPP == InitWith(MaxStepsPP) /\ [][NextPP]_vars

\* C1: at every point where user code executes, every co-routine is a member
\* of at most one co-routine queue, appears in it at most once, and its queue
\* back-reference is non-null exactly when the traversal of that queue from
\* its head reaches it.
C1_QueueMembership ==
    UserPoint =>
        \A c \in Cor : mem[c] = "live" =>
            /\ Cardinality({cq \in LiveCQ : Reaches(cq, c)}) <= 1
            /\ \A cq \in LiveCQ : Times(cq, c) <= 1
            /\ queue[c] # NULL => Reaches(queue[c], c)
            /\ queue[c] = NULL => \A cq \in LiveCQ : ~Reaches(cq, c)

\* C2: for every co-routine that was spawned and not destroyed, at every
\* point where user code executes, routines_state returns ROUTINES_COMPLETED
\* if and only if its task function has returned.
C2_CompletedIffReturned ==
    UserPoint =>
        \A c \in Cor : mem[c] = "live" =>
            (routines_state(St, c) = ROUTINES_COMPLETED <=> returned[c])

\* C3: at every point where user code executes, a co-routine is in state
\* ROUTINES_RUNNING if and only if it is the current co-routine or a member
\* of the ready queue.
C3_RunningIffCurrentOrReady ==
    UserPoint =>
        \A c \in Cor : mem[c] = "live" =>
            (state[c] = ROUTINES_RUNNING <=>
                (c = current_coroutine \/ Reaches(ready_queue, c)))

\* C4: at every point where user code executes, the blocked state of a
\* co-routine matches where it is parked: BLOCKED_RECV iff member of the
\* receiver wait queue of some message queue, BLOCKED_JOIN iff member of the
\* join queue of some co-routine, BLOCKED_SEND iff the sender of some pending
\* message entry.
C4_BlockedMatchesParking ==
    UserPoint =>
        \A c \in Cor : mem[c] = "live" =>
            /\ state[c] = ROUTINES_BLOCKED_RECV <=>
                   \E cq \in RecvQueues : Reaches(cq, c)
            /\ state[c] = ROUTINES_BLOCKED_JOIN <=>
                   \E cq \in JoinQueues : Reaches(cq, c)
            /\ state[c] = ROUTINES_BLOCKED_SEND <=>
                   \E m \in Msg : entry[m].used /\ entry[m].sender = c

SendOps == {"send", "signal", "call", "post"}

\* C5: routines_send returns to its caller only after its message has been
\* taken out of the queue by a receive, unless another party suspended,
\* resumed or destroyed the sender or destroyed the queue meanwhile.
C5_SendReturnsAfterReceive ==
    UserPoint => last.sret # "pending"

\* C6: for a message queue that is not destroyed, the payloads come out of
\* successful wait/recv/read calls in the order in which send/signal/call/post
\* admitted them: each one taken out is the one admitted first among those
\* not yet taken out.
C6_MessageFifo ==
    (UserPoint /\ last.got /\ last.hit) => last.ret = last.exp

\* A receive takes out the payload admitted first while another payload,
\* a different one, stays pending behind it.
C6_Witness ==
    /\ UserPoint /\ last.got /\ last.hit
    /\ last.ret = last.exp
    /\ hist[last.gq] # <<>>
    /\ Head(hist[last.gq]) # last.ret

\* C7: a message sent to a queue on which receivers are parked resumes the
\* one that parked first and is the message it receives; and a receiver
\* woken so can afterwards block, yield or complete normally (its next call
\* does not fail an assertion).
C7_ReceiverFifo ==
    /\ (UserPoint /\ last.op \in SendOps /\ last.woke # NULL) =>
           /\ current_coroutine = last.woke
           /\ last.got /\ last.hit /\ last.gq = last.q /\ last.ret = last.m
    /\ (defined /\ last.after /\ last.op \in {"yield", "wait", "recv", "join",
                                              "send", "exit", "suspend"}) =>
           status # "abort"

\* C8: for every message queue, at every point where user code executes,
\* the pending messages and the receiver wait queue are not both non-empty.
C8_OneFifoNonEmpty ==
    UserPoint =>
        \A q \in MQ : qmem[q] = "live" =>
            ~(qhead[q] # NULL /\ head[recv_queue(q)] # NULL)

\* C9: routines_signal and routines_post are not suspension points: when
\* the call returns control to user code, it is to the caller.
C9_SignalPostDoNotSwitch ==
    (UserPoint /\ last.op \in {"signal", "post"}) =>
        current_coroutine = last.by

\* The ids printed follow the cycle ord.
Cyclic(o, ord) ==
    \A i \in 1..Len(o) : o[i] = ord[((i - 1) % Len(ord)) + 1]

\* C10: once the workers are all in the ready queue and root yields, the
\* workers print in the cyclic order of the ready queue (A B C A B C ...),
\* and the run is not cut short by a failed assertion.
C10_YieldRoundRobin ==
    (defined /\ order # <<>>) =>
        /\ status # "abort"
        /\ Cyclic(out, order)

\* C11: a routines_yield made by a co-routine while the ready queue is empty
\* returns control to the root context.
C11_YieldToRootWhenIdle ==
    (UserPoint /\ last.op = "yield" /\ last.by # NULL /\ last.idle) =>
        current_coroutine = NULL

\* The co-routines that may run, in the order they will: the current one,
\* then the ready queue.
RunOrder ==
    IF current_coroutine = NULL THEN Members(ready_queue)
    ELSE <<current_coroutine>> \o Members(ready_queue)

\* The co-routine whose join queue a return or a routines_destroy drains.
Joinee == IF last.op = "exit" THEN last.by ELSE last.h

\* C12: when the task of T returns or routines_destroy(T) is called with
\* co-routines parked in routines_join(T), the call does not fail, every
\* joiner becomes ROUTINES_RUNNING and is scheduled in the order it joined,
\* and the join queue of T is left empty.
C12_JoinersResumed ==
    (defined /\ last.op \in {"exit", "destroy"} /\ last.joined # <<>>) =>
        /\ status # "abort"
        /\ status = "ok" =>
               /\ \A i \in 1..Len(last.joined) :
                      state[last.joined[i]] = ROUTINES_RUNNING
               /\ SelectSeq(RunOrder,
                            LAMBDA c : \E i \in 1..Len(last.joined) :
                                          last.joined[i] = c) = last.joined
               /\ head[join_queue(Joinee)] = NULL

\* C13: routines_join(T) on a co-routine whose task function has already
\* returned does not block: control stays with the caller, which is not put
\* on the join queue of T and is not ROUTINES_BLOCKED_JOIN.
C13_JoinCompletedReturns ==
    (UserPoint /\ last.op = "join" /\ last.done) =>
        /\ current_coroutine = last.by
        /\ ~Reaches(join_queue(last.h), last.by)
        /\ state[last.by] # ROUTINES_BLOCKED_JOIN

\* The memory of the program: the records, the queues and the globals.
Runtime ==
    <<mem, state, queue, prev, next, message, stack_base, context, returned,
      head, tail, qmem, qhead, qtail, entry, root_context, current_coroutine,
      exited_coroutine, unused_stacks, nstacks>>

\* Co-routine h is ROUTINES_SUSPENDED, on no co-routine queue and the sender
\* of no pending message entry.
Detached(h) ==
    /\ state[h] = ROUTINES_SUSPENDED
    /\ queue[h] = NULL
    /\ \A cq \in LiveCQ : ~Reaches(cq, h)
    /\ \A m \in Msg : ~(entry[m].used /\ entry[m].sender = h)

\* A step that is routines_suspend(h) by a caller other than h.
SuspendOther ==
    UserPoint' /\ last'.op = "suspend" /\ last'.h # last'.by

\* C14: after routines_suspend(h) on a co-routine h other than the caller,
\* h is ROUTINES_SUSPENDED, a member of no co-routine queue and the sender of
\* no pending message entry; and a routines_suspend(h) that repeats the one
\* made just before changes nothing in the memory of the program.
C14_SuspendIdempotent ==
    [][SuspendOther =>
          /\ \A h \in Cor : h = last'.h => Detached(h)'
          /\ (UserPoint /\ last.op = "suspend" /\ last.h = last'.h
                 /\ last.by = last'.by) => Runtime' = Runtime]_vars

\* The calls by which another party takes a co-routine out of what it is
\* blocked in.
MeddleOps == {"suspend", "resume", "destroy"}

\* A step that suspends, resumes or destroys co-routine h while it is the
\* sender of pending entry m.
MeddleSender(h, m) ==
    /\ UserPoint /\ UserPoint'
    /\ last'.op \in MeddleOps /\ last'.h = h
    /\ h # current_coroutine /\ state[h] = ROUTINES_BLOCKED_SEND
    /\ message[h] = m

\* A step in which a receive takes out an entry of a sender that was
\* suspended while its routines_send was pending.
TakeOrphan(h) ==
    /\ UserPoint /\ UserPoint'
    /\ last'.got /\ last'.hit /\ last'.from = h
    /\ sending[h] = "void" /\ mem[h] = "live"
    /\ state[h] = ROUTINES_SUSPENDED

\* C15: suspending, resuming or destroying a co-routine blocked in
\* routines_send leaves its entry in the queue with payload, reply queue and
\* position as they were and only the sender field cleared; a later receive
\* delivers the payload in order and resumes nobody for the sender.
C15_BlockedSendKeepsMessage ==
    [][/\ \A h \in Cor, m \in Msg : MeddleSender(h, m) =>
              /\ entry'[m] = [entry[m] EXCEPT !.sender = NULL]
              /\ \A q \in MQ : qmem[q] = "live" => Pending(q)' = Pending(q)
       /\ \A h \in Cor : TakeOrphan(h) =>
              /\ last'.ret = last'.exp
              /\ state'[h] = ROUTINES_SUSPENDED]_vars

\* A co-routine blocked in routines_send has just been suspended, resumed or
\* destroyed, and its entry is pending without a sender.
C15_Witness ==
    /\ UserPoint /\ last.op \in MeddleOps
    /\ sending[last.h] = "void"
    /\ \E m \in Msg : /\ entry[m].used /\ entry[m].by = last.h
                       /\ entry[m].api = "send" /\ entry[m].sender = NULL
                       /\ \E q \in MQ : qmem[q] = "live" /\
                              \E i \in 1..Len(Pending(q)) : Pending(q)[i] = m

\* A step in which co-routine c, parked in routines_wait or routines_recv and
\* made ready by routines_resume, gets control back and returns from its
\* receive.
ResumedReceiverReturns(c) ==
    /\ UserPoint /\ UserPoint'
    /\ c # current_coroutine /\ mem[c] = "live"
    /\ state[c] = ROUTINES_RUNNING
    /\ context[c].at = "recv" /\ context[c].api \in {"wait", "recv"}
    /\ current_coroutine' = c
    /\ last'.got /\ last'.blk

\* C16: a co-routine that was blocked in routines_wait or routines_recv and
\* is woken by routines_resume, not by a send, returns NULL from the call,
\* and the reply-queue variable it passed to routines_recv is NULL.
C16_ResumedReceiverGetsNull ==
    [][\A c \in Cor : ResumedReceiverReturns(c) =>
           /\ last'.ret = NULL
           /\ last'.rq = NULL]_vars

\* A step that is routines_queue_destroy on a queue with parked receivers.
DestroyWithReceivers ==
    defined /\ last'.op = "queue_destroy" /\ last'.rcv # <<>>

\* A step in which a receiver gets control back in the recv of a queue that
\* has been destroyed.
ReturnsFromDestroyed ==
    /\ defined /\ last'.got /\ last'.blk
    /\ last'.gq # NULL /\ qmem[last'.gq] = "freed"

\* C17: routines_queue_destroy(Q) with receivers parked on Q does not fail,
\* drops the pending messages and makes every parked receiver
\* ROUTINES_RUNNING on the ready queue in the order it parked; each receiver
\* then returns NULL from its wait/recv in a well-defined way.
C17_QueueDestroyWakesReceivers ==
    [][/\ DestroyWithReceivers =>
              /\ status' # "abort"
              /\ status' = "ok" =>
                     /\ \A i \in 1..Len(last'.rcv) :
                            state'[last'.rcv[i]] = ROUTINES_RUNNING
                     /\ SelectSeq(Members(ready_queue)',
                                  LAMBDA c : \E i \in 1..Len(last'.rcv) :
                                                last'.rcv[i] = c) = last'.rcv
                     /\ \A q \in MQ : q = last'.q =>
                            /\ head'[recv_queue(q)] = NULL
                            /\ qhead'[q] = NULL
       /\ ReturnsFromDestroyed =>
              /\ defined' /\ status' = "ok"
              /\ last'.ret = NULL]_vars

\* routines_queue_destroy has just returned for a queue that had co-routines
\* blocked in routines_send on it.
DestroyedWithSenders ==
    UserPoint /\ last.op = "queue_destroy" /\ last.snd # <<>>

CallPending(m) ==
    /\ UserPoint /\ last.op = "call" /\ last.srv = NULL
    /\ entry[m].used /\ entry[m].api = "call" /\ entry[m].by = last.by
    /\ \E i \in 1..Len(Pending(last.q)) : Pending(last.q)[i] = m

\* The caller of the routines_call just made is parked as a receiver on the
\* reply queue it gave.
CallerAwaitsReply ==
    /\ state[last.by] = ROUTINES_BLOCKED_RECV
    /\ context[last.by].at = "recv" /\ context[last.by].api = "call"
    /\ Reaches(recv_queue(context[last.by].q), last.by)

IsPrefix(a, b) ==
    Len(a) <= Len(b) /\ \A i \in 1..Len(a) : a[i] = b[i]

\* C20: in the ping-pong program with one server and one or two clients
\* making NumPings calls each on the shared server queue, nothing fails; the
\* server handles the requests in the order the calls were made; every call
\* returns the caller's own message, taken from the caller's own reply queue,
\* with the caller's pings and pongs equal; and a client that has finished
\* its loop has pings and pongs both at NumPings.
C20_PingPong ==
    pp.sq # NULL =>
        /\ status = "ok" /\ defined
        /\ IsPrefix(pp.served, pp.called)
        /\ (last.got /\ last.rop = "call") =>
               /\ last.hit
               /\ last.ret = current_coroutine
               /\ last.gq = pp.replyq[current_coroutine]
               /\ pp.pongs[current_coroutine] = pp.pings[current_coroutine]
        /\ \A c \in Clients : pp.stage[c] \in {"exit", "done"} =>
               /\ pp.pings[c] = NumPings
               /\ pp.pongs[c] = NumPings

\* Two clients have made all their calls, alternately, and have returned;
\* the server has handled every request.
C20_Witness ==
    /\ Cardinality(Clients) = NumClients
    /\ \A c \in Clients : pp.stage[c] = "done" /\ pp.pongs[c] = NumPings
    /\ Len(pp.served) = NumClients * NumPings
    /\ pp.served = pp.called
    /\ pp.served[1] # pp.served[2]

\* ---------------------------------------------------------- routines_read

\* A step that is a call of routines_read made from user code and back in
\* user code.
ReadStep == UserPoint /\ UserPoint' /\ last'.op = "read"

AllDestroyed ==
    /\ \E c \in Cor : mem[c] = "freed"
    /\ \A c \in Cor : mem[c] # "live"

\* The stacks on the free list.
FreeStacks == {unused_stacks[i] : i \in 1..Len(unused_stacks)}

\* C22: no stack leak.  Once every spawned co-routine has been destroyed,
\* every stack that was ever allocated is on the free list exactly once, and
\* the free list is as long as the largest number of co-routines that held a
\* stack at the same time.
C22_NoStackLeak ==
    (UserPoint /\ AllDestroyed) =>
        /\ FreeStacks = 1..nstacks
        /\ Len(unused_stacks) = nstacks
        /\ Len(unused_stacks) = peak

\* Two co-routines held a stack at the same time, every co-routine has been
\* destroyed again, and one of them was destroyed before it returned.
C22_Witness ==
    /\ UserPoint /\ AllDestroyed
    /\ peak = 2 /\ Len(unused_stacks) = 2
    /\ \E c \in Cor : mem[c] = "freed" /\ ~returned[c]
    /\ \E c \in Cor : mem[c] = "freed" /\ returned[c]

\* --------------------------------------------------------- routines_resume

\* A step that is routines_resume(h), called from user code, on the current
\* co-routine or on a co-routine whose task function has returned.
ResumeOutOfContract ==
    /\ UserPoint /\ last'.op = "resume"
    /\ \E h \in Cor :
          /\ h = last'.h
          /\ (h = current_coroutine \/ returned[h])

\* C23: routines_resume(h) fails loudly whenever h is the current co-routine
\* or the task function of h has returned, whatever was called on h before:
\* the assertion aborts the process and nothing of the runtime has changed.
C23_ResumeFailsLoudly ==
    [][ResumeOutOfContract => (status' = "abort" /\ Runtime' = Runtime)]_vars

\* -------------------------------------------------------- routines_destroy

\* Nothing of the runtime refers to co-routine h: no queue object has it as
\* head or tail, no co-routine record links to it, no pending message entry
\* names it as sender, and it is neither the current nor the exited
\* co-routine.
Unreferenced(h) ==
    /\ \A cq \in (LiveCQ \ {join_queue(h)}) : head[cq] # h /\ tail[cq] # h
    /\ \A c \in Cor : (mem[c] = "live" /\ c # h) => (prev[c] # h /\ next[c] # h)
    /\ \A cq \in (LiveCQ \ {join_queue(h)}) : ~Reaches(cq, h)
    /\ \A m \in Msg : ~(entry[m].used /\ entry[m].sender = h)
    /\ current_coroutine # h
    /\ exited_coroutine # h

\* C24: routines_destroy(h), for h other than the current co-routine, leaves
\* no dangling reference to h: once it has returned, h is reachable from no
\* co-routine queue (head, tail or the prev/next link of a member), is the
\* sender of no pending message entry, and is neither the current nor the
\* exited co-routine, whatever h was doing before.
C24_DestroyLeavesNoReference ==
    (UserPoint /\ last.op = "destroy" /\ last.h # last.by) =>
        \A h \in Cor : h = last.h => Unreferenced(h)

\* ------------------------------------------------- deferred reclamation

\* No stack is on the free list twice, none is both free and held, and no two
\* co-routines hold the same stack.
StacksDisjoint ==
    /\ \A i, j \in 1..Len(unused_stacks) :
          unused_stacks[i] = unused_stacks[j] => i = j
    /\ \A c \in Held(St) : stack_base[c] \notin FreeStacks
    /\ \A c, d \in Held(St) : stack_base[c] = stack_base[d] => c = d

\* A step in which the task function of the current co-routine returns and
\* that ends in user code.
ExitStep == UserPoint /\ UserPoint' /\ last'.op = "exit"

\* A step that is routines_destroy of a co-routine whose task function had
\* returned.
DestroyCompleted ==
    /\ UserPoint /\ UserPoint' /\ last'.op = "destroy"
    /\ \E h \in Cor : h = last'.h /\ returned[h]

\* C25: deferred stack reclamation.  When the task of a co-routine returns,
\* its stack goes to the free list exactly once, in the same step, before the
\* context resumed next is back in user code; so whenever user code runs the
\* exited_coroutine slot is empty, a co-routine that has returned holds no
\* stack and no stack is free twice or free and held; and a later
\* routines_destroy of the completed co-routine leaves the free list as it is.
C25_DeferredReclamation ==
    [][/\ UserPoint' =>
            /\ exited_coroutine' = NULL
            /\ \A c \in Cor : (mem'[c] = "live" /\ returned'[c]) =>
                                  stack_base'[c] = NULL
            /\ StacksDisjoint'
       /\ ExitStep =>
            \A c \in Cor : c = last'.by =>
               /\ returned'[c]
               /\ stack_base[c] # NULL
               /\ unused_stacks' = <<stack_base[c]>> \o unused_stacks
       /\ DestroyCompleted => unused_stacks' = unused_stacks]_vars

\* A co-routine whose task had returned was destroyed while the stack it had
\* run on was on the free list.
C25_Witness ==
    /\ UserPoint /\ last.op = "destroy"
    /\ returned[last.h] /\ mem[last.h] = "freed"
    /\ Len(unused_stacks) = 1 /\ nstacks = 1

\* ------------------------------------------------------ coroutine_enqueue

\* The links of the co-routine queues are sound: a co-routine on no queue has
\* no next or prev link, the head of a queue has no prev link, and no
\* co-routine is a member of a queue more than once.
LinksSound ==
    /\ \A c \in Cor : (mem[c] = "live" /\ queue[c] = NULL) =>
                          (next[c] = NULL /\ prev[c] = NULL)
    /\ \A cq \in LiveCQ : head[cq] # NULL => prev[head[cq]] = NULL
    /\ \A cq \in LiveCQ : \A c \in Cor : Times(cq, c) <= 1

\* C26: every call of coroutine_enqueue made through the public API passes
\* its assertions (the next and prev links of the co-routine are NULL): a
\* co-routine that coroutine_dequeue took off a queue carries no stale link,
\* the head that remains has no stale prev link, and no co-routine is
\* enqueued while it is a member of a queue already.
C26_EnqueueAssertionsHold ==
    /\ defined => ~last.enq
    /\ UserPoint => LinksSound

\* -------------------------------------------------------- suspended, final

\* C27: a suspended co-routine is never scheduled.  From routines_suspend(h)
\* (or a suspend of itself) until routines_resume(h) is called, h does not
\* become the current co-routine, whatever is sent, yielded, exited or
\* suspended in between: a step from user code to user code that is not
\* routines_resume(h) does not make a ROUTINES_SUSPENDED h current.
C27_SuspendedNeverScheduled ==
    [][(UserPoint /\ UserPoint') =>
         \A h \in Cor :
            (/\ mem[h] = "live" /\ state[h] = ROUTINES_SUSPENDED
             /\ h # current_coroutine
             /\ ~(last'.op = "resume" /\ last'.h = h))
            => current_coroutine' # h]_vars

\* C28: completion is final.  Once the task function of a co-routine has
\* returned, the co-routine is never the current co-routine again and is
\* never on the ready queue, whatever is called afterwards: no step made from
\* user code ends with a live co-routine that has returned being current or
\* a member (or the head or tail) of the ready queue.
C28_CompletionIsFinal ==
    [][UserPoint =>
         \A c \in Cor :
            (mem'[c] = "live" /\ returned'[c]) =>
               /\ current_coroutine' # c
               /\ ~Reaches(ready_queue, c)'
               /\ head'[ready_queue] # c /\ tail'[ready_queue] # c
               /\ queue'[c] # ready_queue]_vars

\* ----------------------------------------------------- destroyed queues

\* C29: no use of a destroyed queue.  After routines_queue_destroy(Q) has
\* released Q no co-routine reads or writes the record of Q; in particular a
\* receiver that was parked on Q and is woken by the destroy does not touch Q
\* when it resumes inside its wait or recv: no step made while all is defined
\* accesses the record of a released message queue.
C29_NoUseOfDestroyedQueue ==
    [][(defined /\ status = "ok") => ~last'.ubq]_vars

\* ------------------------------------------------------------------- root

\* A step that hands control from a co-routine to the root context: a
\* transfer without a target or the exit of a task found no co-routine to
\* run.
SwitchToRoot ==
    /\ UserPoint /\ UserPoint'
    /\ current_coroutine # NULL /\ current_coroutine' = NULL

\* A routines_yield made by root that is back in root within the step.
RootYieldStays ==
    /\ UserPoint /\ UserPoint'
    /\ last'.op = "yield" /\ last'.by = NULL /\ current_coroutine' = NULL

\* No co-routine is ready: the ready queue is empty, no co-routine is marked
\* as its member, and every live co-routine whose task has not returned is
\* blocked or suspended.
NoneReady ==
    /\ head[ready_queue] = NULL /\ tail[ready_queue] = NULL
    /\ \A c \in Cor : mem[c] = "live" => queue[c] # ready_queue
    /\ \A c \in Cor : (mem[c] = "live" /\ ~returned[c]) =>
                          state[c] # ROUTINES_RUNNING

\* C30: control is handed to the root context only when no co-routine is
\* ready.  Every switch to root, from transfer or from the exit of a task,
\* happens with the ready queue empty and current_coroutine set to NULL, root
\* goes on in the context it had saved, and routines_self() is NULL there; so
\* a routines_yield of root returns only when every ready co-routine has
\* blocked, been suspended or completed.
C30_RootOnlyWhenNoneReady ==
    [][(SwitchToRoot \/ RootYieldStays) =>
          /\ NoneReady'
          /\ current_coroutine' = NULL
          /\ routines_self(St)' = NULL
          /\ root_context'.at \in {"spawn", "yield"}
          /\ last'.by # NULL => root_context' = root_context]_vars

====
